---------------------------- MODULE Spec2Model ----------------------------
(***************************************************************************)
(* A model of weather.py: one run of the command-line weather utility.     *)
(*                                                                         *)
(* Text is a sequence of chunks.  A chunk is either one character that     *)
(* matters to URL syntax (" ", "+", "&", "=", "%", "#", "?", a hex digit)  *)
(* or a literal piece of unreserved text ("units", "metric", the API key). *)
(* Python's None and the empty list are both written <<>>: the program     *)
(* only ever tests them for truth or subscripts them.                      *)
(***************************************************************************)
EXTENDS Integers, Sequences, FiniteSets, TLC

VARIABLES
    pc,                \* position in the __main__ block
    city,              \* user_args.city: <<>> (None) or a non-empty list of tokens
    imperial,          \* user_args.imperial
    current_location,  \* value of get_user_current_lat_lng()
    query_url,         \* query_url of __main__, <<>> while None
    weather_data,      \* the decoded payload handed to weather_output_format
    trace,             \* the external calls made so far, in order
    stdout,            \* lines written by puts
    stderr,            \* messages of sys.exit and of uncaught exceptions
    exit_code,         \* the process's exit status once pc = "exited"
    http_status,       \* status of the weather response (0: none yet)
    http_body          \* body of the weather response

vars == <<pc, city, imperial, current_location, query_url, weather_data,
          trace, stdout, stderr, exit_code, http_status, http_body>>

---------------------------------------------------------------------------
(* Bounds of the model. *)

\* longest joined city name of the runs of the whole program
MainNameLen == 1

\* longest joined city name handed to the city query builder on its own
MaxNameLen == 3

\* temperatures range over -MaxTemp .. MaxTemp
MaxTemp == 95

---------------------------------------------------------------------------
(* Inputs. *)

BASE_WEATHER_API_URL == "http://api.openweathermap.org/data/2.5/weather"

Alphabet == {"a", " ", "+", "&", "=", "%", "#", "2", "B"}

NamesUpTo(n) == UNION {[1..k -> Alphabet] : k \in 0..n}

MinOf(S) == CHOOSE m \in S : \A o \in S : m <= o

RECURSIVE SplitAt(_, _)
\* the tokens of s when the spaces at the positions seps separate them
SplitAt(s, seps) ==
    IF seps = {} THEN <<s>>
    ELSE LET p == MinOf(seps)
         IN  <<SubSeq(s, 1, p - 1)>>
             \o SplitAt(SubSeq(s, p + 1, Len(s)), {q - p : q \in seps \ {p}})

\* nargs="+": every non-empty list of tokens (a token may be empty, and may
\* hold spaces) whose joined name has at most n characters
CitiesUpTo(n) ==
    UNION {{SplitAt(s, seps) : seps \in SUBSET {i \in 1..Len(s) : s[i] = " "}}
           : s \in NamesUpTo(n)}

NoCity == <<>>

Temps == (0 - MaxTemp)..MaxTemp

\* secrets.ini as _get_api_key sees it: <<>> when the file, the section or
\* the key is missing
SecretsOutcomes == {<<>>, <<"KEY">>}

\* g_location.latlng: a pair, or nothing ([] or None) when the lookup failed
GeoOutcomes == {<<>>, <<"40.71", "-74.00">>, <<"-33.87", "151.21">>}

HttpErrorCodes == {400, 401, 404, 500}

\* what the server may send: a full report, JSON without the fields that
\* are read, text that is not JSON, bytes that are not text
Bodies ==
    [kind : {"report"}, temp : Temps]
    \cup [kind : {"json_other", "text", "bad_utf8"}, temp : {0}]

NoData == [kind |-> "none", temp |-> 0]

---------------------------------------------------------------------------
(* Pure functions of weather.py. *)

\* the test made on the tokens' text instead of on the list
Truthy_joined(v) == \E i \in 1..Len(v) : v[i] # <<>>

\* truth of a list (or None) in `if user_args.city:'
Truthy(v) == Len(v) > 0

RECURSIVE Join(_)
\* " ".join(city_input)
Join(tokens) ==
    IF Len(tokens) = 0 THEN <<>>
    ELSE IF Len(tokens) = 1 THEN tokens[1]
    ELSE tokens[1] \o <<" ">> \o Join(Tail(tokens))

Unreserved == {"a", "2", "B"}

\* one character under urllib.parse.quote_plus
QuoteChar(c) ==
    CASE c = " " -> <<"+">>
      [] c \in Unreserved -> <<c>>
      [] c = "+" -> <<"%", "2", "B">>
      [] c = "&" -> <<"%", "2", "6">>
      [] c = "=" -> <<"%", "3", "D">>
      [] c = "%" -> <<"%", "2", "5">>
      [] c = "#" -> <<"%", "2", "3">>

\* the name left as it is
quote_plus_raw(s) == s

RECURSIVE quote_plus(_)
\* urllib.parse.quote_plus
quote_plus(s) ==
    IF s = <<>> THEN <<>> ELSE QuoteChar(Head(s)) \o quote_plus(Tail(s))

\* "imperial" if imperial else "metric"
Units(imp) == IF imp THEN "imperial" ELSE "metric"

\* config["openweather"]["api_key"]; raises KeyError when it is missing
HasApiKey(secrets) == secrets # <<>>
_get_api_key(secrets) == secrets[1]

build_weather_query_with_city(city_input, imp, secrets) ==
    LET api_key == _get_api_key(secrets)
        city_name == Join(city_input)
        url_encoded_city_name == quote_plus(city_name)
        units == Units(imp)
    IN  <<BASE_WEATHER_API_URL, "?", "q", "=">> \o url_encoded_city_name
        \o <<"&", "units", "=", units, "&", "appid", "=", api_key>>

build_weather_query_with_lat_long_noreturn(lat_long, imp, secrets) == <<>>

build_weather_query_with_lat_long(lat_long, imp, secrets) ==
    LET api_key == _get_api_key(secrets)
        units == Units(imp)
    IN  <<BASE_WEATHER_API_URL, "?", "lat", "=", lat_long[1],
          "&", "lon", "=", lat_long[2], "&", "units", "=", units,
          "&", "appid", "=", api_key>>

Message(text, args) == [kind |-> "exit", text |-> text, args |-> args]

Traceback(exc) == [kind |-> "traceback", text |-> exc, args |-> <<>>]

HttpErrorMessage_swapped(code) ==
    IF code = 404 THEN Message("Access denied. Check API key.", <<>>)
    ELSE IF code = 401 THEN Message("Can't find weather data for this city.", <<>>)
    ELSE Message("Something went wrong... (", <<code>>)

\* the handler of error.HTTPError in get_weather_data
HttpErrorMessage(code) ==
    IF code = 401 THEN Message("Access denied. Check API key.", <<>>)
    ELSE IF code = 404 THEN Message("Can't find weather data for this city.", <<>>)
    ELSE Message("Something went wrong... (", <<code>>)

temp_display_format_swapped(temperature, imp) ==
    IF imp THEN <<temperature, "°C">> ELSE <<temperature, "°F">>

temp_display_format(temperature, imp) ==
    IF imp THEN <<temperature, "°F">> ELSE <<temperature, "°C">>

temp_color_display_format_strict(temperature, imp) ==
    IF imp
    THEN IF temperature > 90 THEN "red"
         ELSE IF temperature < 50 THEN "cyan"
         ELSE "yellow"
    ELSE IF temperature > 32 THEN "red"
         ELSE IF temperature < 10 THEN "cyan"
         ELSE "yellow"

temp_color_display_format(temperature, imp) ==
    IF imp
    THEN IF temperature >= 90 THEN "red"
         ELSE IF temperature <= 50 THEN "cyan"
         ELSE "yellow"
    ELSE IF temperature >= 32 THEN "red"
         ELSE IF temperature <= 10 THEN "cyan"
         ELSE "yellow"

\* the line weather_output_format hands to puts
OutputLine(data, imp) ==
    [indent |-> 4, quote |-> ">>>",
     city_message |-> <<"blue", "name">>,
     weather_description_message |-> <<"white", "description">>,
     temperature_message |->
         <<temp_color_display_format(data.temp, imp),
           temp_display_format(data.temp, imp)>>]

---------------------------------------------------------------------------
(* The run: the __main__ block, one action per statement that calls out. *)

CliRequests(n) ==
    [city : {NoCity} \cup CitiesUpTo(n), imperial : BOOLEAN]

InitWith(requests) ==
    /\ \E r \in requests : city = r.city /\ imperial = r.imperial
    /\ pc = "main"
    /\ current_location = <<>>
    /\ query_url = <<>>
    /\ weather_data = NoData
    /\ trace = <<>>
    /\ stdout = <<>>
    /\ stderr = <<>>
    /\ exit_code = 0
    /\ http_status = 0
    /\ http_body = NoData

\* the state when read_user_cli_args has returned
Init == InitWith(CliRequests(MainNameLen))

\* one external call and the failure it met ("none": it succeeded)
Call(name, failure) == [call |-> name, failure |-> failure]

\* sys.exit(msg) written as print(msg): the run goes on
SysExit_print(msg) ==
    /\ stderr' = Append(stderr, msg)
    /\ pc' = "format"
    /\ UNCHANGED exit_code

\* sys.exit(msg): the message goes to standard error, the status is 1
SysExit(msg) ==
    /\ stderr' = Append(stderr, msg)
    /\ pc' = "exited"
    /\ exit_code' = 1

\* an exception nothing catches: the traceback goes to standard error
Crash(exc) ==
    /\ stderr' = Append(stderr, Traceback(exc))
    /\ pc' = "exited"
    /\ exit_code' = 1

\* query_url = build_weather_query_with_city(user_args.city, user_args.imperial)
CityQuery ==
    /\ pc = "main"
    /\ Truthy(city)
    /\ \E secrets \in SecretsOutcomes :
          /\ trace' = Append(trace, Call("config", IF HasApiKey(secrets) THEN "none" ELSE "ConfigurationError"))
          /\ \/ /\ ~HasApiKey(secrets)
                /\ Crash("KeyError")
                /\ UNCHANGED query_url
             \/ /\ HasApiKey(secrets)
                /\ query_url' = build_weather_query_with_city(city, imperial, secrets)
                /\ pc' = "fetch"
                /\ UNCHANGED <<stderr, exit_code>>
    /\ UNCHANGED <<city, imperial, current_location, weather_data, stdout,
                   http_status, http_body>>

\* the API key read ahead of the geolocation call
Geolocate_keyfirst ==
    /\ pc = "main"
    /\ ~Truthy(city)
    /\ \E loc \in GeoOutcomes :
          /\ current_location' = loc
          /\ trace' = trace \o <<Call("config", "none"),
                               Call("geo", IF loc # <<>> THEN "none" ELSE "LocationError")>>
    /\ pc' = "latlng"
    /\ UNCHANGED <<city, imperial, query_url, weather_data, stdout, stderr,
                   exit_code, http_status, http_body>>

\* current_location = get_user_current_lat_lng()
Geolocate ==
    /\ pc = "main"
    /\ ~Truthy(city)
    /\ \E loc \in GeoOutcomes :
          /\ current_location' = loc
          /\ trace' = Append(trace, Call("geo", IF loc # <<>> THEN "none" ELSE "LocationError"))
    /\ pc' = "latlng"
    /\ UNCHANGED <<city, imperial, query_url, weather_data, stdout, stderr,
                   exit_code, http_status, http_body>>

\* query_url = build_weather_query_with_lat_long(current_location, user_args.imperial)
LatLongQuery ==
    /\ pc = "latlng"
    /\ \E secrets \in SecretsOutcomes :
          /\ trace' = Append(trace, Call("config", IF HasApiKey(secrets) THEN "none" ELSE "ConfigurationError"))
          /\ \/ /\ ~HasApiKey(secrets)
                /\ Crash("KeyError")
                /\ UNCHANGED query_url
             \/ /\ HasApiKey(secrets)
                /\ Len(current_location) < 2
                /\ Crash("TypeError")
                /\ UNCHANGED query_url
             \/ /\ HasApiKey(secrets)
                /\ Len(current_location) >= 2
                /\ query_url' =
                      build_weather_query_with_lat_long(current_location, imperial, secrets)
                /\ pc' = "fetch"
                /\ UNCHANGED <<stderr, exit_code>>
    /\ UNCHANGED <<city, imperial, current_location, weather_data, stdout,
                   http_status, http_body>>

\* weather_data = get_weather_data(query_url)
GetWeatherData ==
    /\ pc = "fetch"
    /\ \/ \* urlopen raises URLError: no connection, no response
          /\ trace' = Append(trace, Call("weather", "TransportError"))
          /\ Crash("URLError")
          /\ UNCHANGED <<weather_data, http_status, http_body>>
       \/ \* urlopen raises HTTPError
          \E code \in HttpErrorCodes, body \in Bodies :
             /\ trace' = Append(trace, Call("weather", "TransportError"))
             /\ http_status' = code
             /\ http_body' = body
             /\ SysExit(HttpErrorMessage(code))
             /\ UNCHANGED weather_data
       \/ \* a response: data = response.read(); json.loads(data)
          \E body \in Bodies :
             /\ trace' = Append(trace, Call("weather",
                                 IF body.kind \in {"text", "bad_utf8"}
                                 THEN "DecodeError" ELSE "none"))
             /\ http_status' = 200
             /\ http_body' = body
             /\ \/ /\ body.kind = "bad_utf8"
                   /\ Crash("UnicodeDecodeError")
                   /\ UNCHANGED weather_data
                \/ /\ body.kind = "text"
                   /\ SysExit(Message("Couldn't read server response.", <<>>))
                   /\ UNCHANGED weather_data
                \/ /\ body.kind \in {"report", "json_other"}
                   /\ weather_data' = body
                   /\ pc' = "format"
                   /\ UNCHANGED <<stderr, exit_code>>
    /\ UNCHANGED <<city, imperial, current_location, query_url, stdout>>

\* weather_output_format(weather_data, user_args.imperial), then the end of the script
WeatherOutputFormat ==
    /\ pc = "format"
    /\ \/ /\ weather_data.kind # "report"
          /\ Crash("KeyError")
          /\ UNCHANGED stdout
       \/ /\ weather_data.kind = "report"
          /\ stdout' = Append(stdout, OutputLine(weather_data, imperial))
          /\ pc' = "exited"
          /\ exit_code' = 0
          /\ UNCHANGED stderr
    /\ UNCHANGED <<city, imperial, current_location, query_url, weather_data,
                   trace, http_status, http_body>>

Next ==
    \/ CityQuery
    \/ Geolocate
    \/ LatLongQuery
    \/ GetWeatherData
    \/ WeatherOutputFormat

Spec == Init /\ [][Next]_vars

\* the city query builder alone, over every city name of up to MaxNameLen characters
InitUrl == InitWith([city : CitiesUpTo(MaxNameLen), imperial : BOOLEAN])

SpecUrl == InitUrl /\ [][CityQuery]_vars

---------------------------------------------------------------------------
(* Reading a URL back, as urllib.parse.urlsplit and parse_qsl             *)
(* (keep_blank_values=True) read it.                                       *)

FirstIndex(s, c) ==
    IF \E i \in 1..Len(s) : s[i] = c
    THEN MinOf({i \in 1..Len(s) : s[i] = c})
    ELSE 0

RECURSIVE SplitOn(_, _)
SplitOn(s, c) ==
    LET i == FirstIndex(s, c)
    IN  IF i = 0 THEN <<s>>
        ELSE <<SubSeq(s, 1, i - 1)>> \o SplitOn(SubSeq(s, i + 1, Len(s)), c)

\* the query component: after the first "?", before the first "#"
QueryString(url) ==
    LET q == FirstIndex(url, "?")
        rest == IF q = 0 THEN <<>> ELSE SubSeq(url, q + 1, Len(url))
        h == FirstIndex(rest, "#")
    IN  IF h = 0 THEN rest ELSE SubSeq(rest, 1, h - 1)

HexDigits == {"0", "2", "3", "5", "6", "a", "B", "D"}

\* the character a percent escape stands for ("?": a character outside the alphabet)
Unhex(a, b) ==
    CASE <<a, b>> = <<"2", "0">> -> " "
      [] <<a, b>> = <<"2", "B">> -> "+"
      [] <<a, b>> = <<"2", "6">> -> "&"
      [] <<a, b>> = <<"3", "D">> -> "="
      [] <<a, b>> = <<"2", "5">> -> "%"
      [] <<a, b>> = <<"2", "3">> -> "#"
      [] OTHER -> "?"

RECURSIVE unquote_plus(_)
unquote_plus(s) ==
    IF s = <<>> THEN <<>>
    ELSE IF s[1] = "+" THEN <<" ">> \o unquote_plus(Tail(s))
    ELSE IF s[1] = "%" /\ Len(s) >= 3 /\ s[2] \in HexDigits /\ s[3] \in HexDigits
         THEN <<Unhex(s[2], s[3])>> \o unquote_plus(SubSeq(s, 4, Len(s)))
    ELSE <<s[1]>> \o unquote_plus(Tail(s))

\* the name=value pairs of a URL's query, decoded
parse_qsl(url) ==
    LET fields == SelectSeq(SplitOn(QueryString(url), "&"), LAMBDA f : f # <<>>)
        Pair(f) ==
            LET e == FirstIndex(f, "=")
            IN  IF e = 0 THEN <<unquote_plus(f), <<>>>>
                ELSE <<unquote_plus(SubSeq(f, 1, e - 1)),
                       unquote_plus(SubSeq(f, e + 1, Len(f)))>>
    IN  [i \in 1..Len(fields) |-> Pair(fields[i])]

\* the values the query gives the parameter name
Values(url, name) ==
    LET pairs == parse_qsl(url)
    IN  {pairs[i][2] : i \in {j \in 1..Len(pairs) : pairs[j][1] = <<name>>}}

Calls == {trace[i].call : i \in 1..Len(trace)}

CallNames == [i \in 1..Len(trace) |-> trace[i].call]

CountCalls(name) == Cardinality({i \in 1..Len(trace) : trace[i].call = name})

IsPrefix(s, t) == Len(s) <= Len(t) /\ s = SubSeq(t, 1, Len(s))

\* the failure kind a message on standard error tells the user of
FailureKindOf(msg) ==
    CASE msg.text = "KeyError" -> "ConfigurationError"
      [] msg.text = "TypeError" -> "LocationError"
      [] msg.text \in {"URLError", "Access denied. Check API key.",
                       "Can't find weather data for this city.",
                       "Something went wrong... ("} -> "TransportError"
      [] msg.text \in {"Couldn't read server response.",
                       "UnicodeDecodeError"} -> "DecodeError"
      [] OTHER -> "none"

---------------------------------------------------------------------------
(* The claims. *)

\* C1: when the weather request fails with HTTP error status s, the run ends
\* at once with exit status 1 and one message fixed by s alone, whatever the
\* body: 401 -> "Access denied. Check API key.", 404 -> "Can't find weather
\* data for this city.", any other -> the generic message holding s; no
\* weather line is printed.
C1_HttpErrorExit ==
    http_status \in HttpErrorCodes =>
        /\ pc = "exited"
        /\ exit_code = 1
        /\ stdout = <<>>
        /\ Len(stderr) = 1
        /\ stderr[1].kind = "exit"
        /\ http_status = 401 =>
              stderr[1].text = "Access denied. Check API key." /\ stderr[1].args = <<>>
        /\ http_status = 404 =>
              stderr[1].text = "Can't find weather data for this city."
              /\ stderr[1].args = <<>>
        /\ http_status \notin {401, 404} =>
              stderr[1].text = "Something went wrong... ("
              /\ stderr[1].args = <<http_status>>

\* a 401 whose body is a complete weather report
C1_Witness ==
    /\ http_status = 401
    /\ http_body.kind = "report"
    /\ pc = "exited"
    /\ stderr = <<Message("Access denied. Check API key.", <<>>)>>

\* C2 (as claimed): a failure of any of the four kinds is terminal where it
\* happens: the failed call is the last external call the run makes, and the
\* run ends with a non-zero status, one message that tells of that failure,
\* and no weather line.
C2_TerminalAtDetection ==
    \A i \in 1..Len(trace) :
        trace[i].failure # "none" =>
            /\ i = Len(trace)
            /\ stdout = <<>>
            /\ pc = "exited" =>
                  /\ exit_code # 0
                  /\ Len(stderr) = 1
                  /\ FailureKindOf(stderr[1]) = trace[i].failure

\* C3 (as claimed): a 200 response whose body is not parseable JSON ends the
\* run with the message "Couldn't read server response." and no weather line.
C3_DecodeFailureMessage ==
    (http_status = 200 /\ http_body.kind \in {"text", "bad_utf8"}) =>
        /\ pc = "exited"
        /\ stdout = <<>>
        /\ stderr = <<Message("Couldn't read server response.", <<>>)>>

\* C4: when the weather request is issued (and ever after), query_url is not
\* None and names exactly one of a city (q) and coordinates (lat, lon): the
\* city's when a city was given, the geolocated coordinates when none was.
C4_ExactlyOneSource ==
    (pc = "fetch" \/ "weather" \in Calls) =>
        LET byCity == Values(query_url, "q") # {}
            byCoords == Values(query_url, "lat") # {} \/ Values(query_url, "lon") # {}
        IN  /\ query_url # <<>>
            /\ byCity # byCoords
            /\ byCity => city # NoCity /\ Values(query_url, "q") = {Join(city)}
            /\ byCoords =>
                  /\ city = NoCity
                  /\ Values(query_url, "lat") = {<<current_location[1]>>}
                  /\ Values(query_url, "lon") = {<<current_location[2]>>}

\* the request is about to go out for a city given as one empty token
C4_Witness ==
    /\ pc = "fetch"
    /\ city = <<<<>>>>
    /\ Values(query_url, "q") = {<<>>}
    /\ Values(query_url, "lat") = {}

\* C5: a run calls the geolocation provider at most once and the weather API
\* at most once; it writes at most one thing, a weather line or a fatal
\* message, never both; when it has ended it has written exactly one, and
\* its status is 0 exactly when that was the weather line.
C5_OneOutcome ==
    /\ CountCalls("geo") <= 1
    /\ CountCalls("weather") <= 1
    /\ Len(stdout) + Len(stderr) <= 1
    /\ pc = "exited" =>
          /\ Len(stdout) + Len(stderr) = 1
          /\ exit_code = 0 <=> Len(stdout) = 1
    /\ pc # "exited" => stdout = <<>> /\ stderr = <<>>

\* a run that geolocated, fetched and printed its line
C5_Witness ==
    /\ pc = "exited"
    /\ Len(stdout) = 1
    /\ stderr = <<>>
    /\ CountCalls("geo") = 1
    /\ CountCalls("weather") = 1

\* C6 (as claimed): the external calls are made in the order configuration
\* read, geolocation, weather request: the API key is read before the
\* geolocation provider is contacted.
C6_ConfigBeforeGeo ==
    \A i \in 1..Len(trace) :
        trace[i].call = "geo" => \E j \in 1..(i - 1) : trace[j].call = "config"

\* C6 (amended): the external calls are made one at a time in the order
\* configuration read, weather request when a city was given, and in the
\* order geolocation, configuration read, weather request when none was.
C6_CallOrder ==
    IF city = NoCity
    THEN IsPrefix(CallNames, <<"geo", "config", "weather">>)
    ELSE IsPrefix(CallNames, <<"config", "weather">>)

\* a run without a city that made all three calls
C6_Witness ==
    /\ city = NoCity
    /\ CallNames = <<"geo", "config", "weather">>

\* C7: the geolocation provider is called only in runs without a city: a run
\* given a city, whatever its tokens, never calls it.
C7_GeoOnlyWithoutCity ==
    "geo" \in Calls => city = NoCity

\* a run given one empty token that ended with its weather line
C7_Witness ==
    /\ city = <<<<>>>>
    /\ pc = "exited"
    /\ Len(stdout) = 1
    /\ "geo" \notin Calls

\* C8: the colour of the printed temperature: imperial: red iff t >= 90, cyan
\* iff t <= 50, yellow iff 50 < t < 90; metric: red iff t >= 32, cyan iff
\* t <= 10, yellow iff 10 < t < 32.
C8_ColorThresholds ==
    stdout # <<>> =>
        LET t == weather_data.temp
            c == stdout[1].temperature_message[1]
        IN  /\ c \in {"red", "cyan", "yellow"}
            /\ imperial =>
                  /\ c = "red" <=> t >= 90
                  /\ c = "cyan" <=> t <= 50
                  /\ c = "yellow" <=> (50 < t /\ t < 90)
            /\ ~imperial =>
                  /\ c = "red" <=> t >= 32
                  /\ c = "cyan" <=> t <= 10
                  /\ c = "yellow" <=> (10 < t /\ t < 32)

\* exactly 90 in imperial units is printed red
C8_Witness ==
    /\ stdout # <<>>
    /\ imperial
    /\ weather_data.temp = 90
    /\ stdout[1].temperature_message[1] = "red"

\* C9: one run uses one unit system: with the imperial flag the URL asks for
\* units=imperial, the line shows "°F" and is coloured by 90/50; without it
\* the URL asks for units=metric, the line shows "°C" and is coloured by 32/10.
C9_UnitsConsistent ==
    LET hot == IF imperial THEN 90 ELSE 32
        cold == IF imperial THEN 50 ELSE 10
    IN  /\ query_url # <<>> =>
              Values(query_url, "units") = {<<IF imperial THEN "imperial" ELSE "metric">>}
        /\ stdout # <<>> =>
              LET m == stdout[1].temperature_message
              IN  /\ m[2] = <<weather_data.temp, IF imperial THEN "°F" ELSE "°C">>
                  /\ m[1] = "red" <=> weather_data.temp >= hot
                  /\ m[1] = "cyan" <=> weather_data.temp <= cold

\* an imperial run from coordinates: 40 degrees, which metric would print red
C9_Witness ==
    /\ imperial
    /\ city = NoCity
    /\ stdout # <<>>
    /\ weather_data.temp = 40
    /\ stdout[1].temperature_message = <<"cyan", <<40, "°F">>>>
    /\ Values(query_url, "units") = {<<"imperial">>}

\* C10: the URL built for a city reads back as exactly three parameters: q,
\* equal to the tokens joined by single spaces, units and appid, neither
\* changed by the characters of the name.
C10_CityRoundTrip ==
    (query_url # <<>> /\ city # NoCity) =>
        /\ Len(parse_qsl(query_url)) = 3
        /\ Values(query_url, "q") = {Join(city)}
        /\ Values(query_url, "units") = {<<IF imperial THEN "imperial" ELSE "metric">>}
        /\ Values(query_url, "appid") = {<<"KEY">>}

\* the city given as the tokens "&" and "#" has been built into a URL
C10_Witness ==
    /\ city = <<<<"&">>, <<"#">>>>
    /\ query_url # <<>>
    /\ Values(query_url, "q") = {<<"&", " ", "#">>}

===========================================================================
